---- MODULE Spec2Model ----
(***************************************************************************)
(* Model of the checkout workflow of the cashier front end                 *)
(* (src/frontend/src/App.js, component Transaction and its host MainApp).  *)
(*                                                                         *)
(* Each UI event handler is one action.  JavaScript runs a handler (and    *)
(* the continuation of an await) to completion, and React re-renders      *)
(* between two discrete events, so a handler always closes over the       *)
(* current state: handlers are atomic.  What is not atomic is the POST of *)
(* processTransaction: the part before the await and the part after it    *)
(* are different actions, with the request in flight in between.          *)
(*                                                                         *)
(* Strings the code parses (the payment amount, the manual discount       *)
(* value) are sequences of one-character strings.  Currency amounts are   *)
(* integers: for the catalog below every product subtotal * (pct / 100)   *)
(* is an exact integer in IEEE doubles as well.                           *)
(***************************************************************************)
EXTENDS Integers, Sequences, FiniteSets, Bags, TLC

\* ------------------------------------------------------------ bounds
\* Largest quantity of one cart line that is explored.
MaxQty == 2
\* Largest number of POST /transactions requests outstanding at once.
MaxInFlight == 2

\* ------------------------------------------------- catalog snapshot
\* GET /products: the product list the backend serves (id, tier prices).
Catalog ==
  << [id |-> "A", price_regular |-> 10000, price_sales |-> 9000,
      price_bengkel |-> 8000],
     [id |-> "B", price_regular |-> 5000, price_sales |-> 5000,
      price_bengkel |-> 4000] >>

\* GET /customer-types: the customer types with their discount percentages.
CustomerTypeTable ==
  << [name |-> "regular", discount_percentage |-> 0],
     [name |-> "sales", discount_percentage |-> 10],
     [name |-> "bengkel", discount_percentage |-> 15] >>

\* The tabs of MainApp that are explored ('products' and 'reports' unmount
\* the Transaction component exactly as 'dashboard' does).
Tabs == {"dashboard", "transaction"}

\* The <option>s of the payment method <select>.
PaymentMethods == {"tunai", "transfer"}

\* Texts typed into the payment amount <input type="number">: an amount that
\* pays for some carts and not for others, a negative number, and a text
\* that is no number.
PaymentTexts ==
  { <<"5", "0", "0", "0">>, <<"-", "5">>, <<"-">> }

\* --------------------------------------------------------- JS values
DigitValue ==
  ("0" :> 0) @@ ("1" :> 1) @@ ("2" :> 2) @@ ("3" :> 3) @@ ("4" :> 4) @@
  ("5" :> 5) @@ ("6" :> 6) @@ ("7" :> 7) @@ ("8" :> 8) @@ ("9" :> 9)

\* A JavaScript number: NaN, or a value.
NaN == [isNaN |-> TRUE, val |-> 0]
Num(n) == [isNaN |-> FALSE, val |-> n]

\* a < b and a >= b on JavaScript numbers: every comparison with NaN is false.
LessThan(a, b) == ~a.isNaN /\ ~b.isNaN /\ a.val < b.val
GreaterEq(a, b) == ~a.isNaN /\ ~b.isNaN /\ a.val >= b.val

RECURSIVE digitsPrefix(_)
digitsPrefix(s) ==
  IF s = <<>> \/ Head(s) \notin DOMAIN DigitValue
  THEN <<>>
  ELSE <<Head(s)>> \o digitsPrefix(Tail(s))

RECURSIVE digitsValue(_)
digitsValue(d) ==
  IF d = <<>>
  THEN 0
  ELSE digitsValue(SubSeq(d, 1, Len(d) - 1)) * 10 + DigitValue[d[Len(d)]]

\* parseFloat on texts of sign and digits: the longest numeric prefix, NaN
\* when there is none.
parseFloat(s) ==
  LET neg == s # <<>> /\ Head(s) = "-"
      body == IF neg THEN Tail(s) ELSE s
      d == digitsPrefix(body)
  IN IF d = <<>>
     THEN NaN
     ELSE Num(IF neg THEN 0 - digitsValue(d) ELSE digitsValue(d))

\* The value an <input type="number"> hands to onChange: the text when it
\* is a valid number, the empty string otherwise.
inputNumberValue(raw) ==
  LET body == IF raw # <<>> /\ Head(raw) = "-" THEN Tail(raw) ELSE raw
  IN IF body # <<>> /\ digitsPrefix(body) = body THEN raw ELSE <<>>

\* -------------------------------------------------------------- state
VARIABLES
  activeTab,             \* MainApp: the tab shown
  products,              \* Transaction: product list, [] until fetched
  customerTypes,         \* Transaction: customer types, [] until fetched
  cart,                  \* Transaction: sequence of cart lines
  selectedCustomerType,  \* Transaction: name of the selected customer type
  paymentMethod,         \* Transaction: 'tunai' or 'transfer'
  paymentAmount,         \* Transaction: text of the tendered amount
  manualDiscountType,    \* Transaction: 'none', 'percentage', 'amount'
  manualDiscountValue,   \* Transaction: text of the manual discount
  inflight,              \* bag of POSTs awaited by the mounted Transaction
  orphans,               \* bag of POSTs awaited by unmounted Transactions
  totals,                \* Transaction: the totals of the last render
  posted,                \* the request body the last step sent, if any
  alertShown             \* the alert() the last step raised, if any

vars ==
  << activeTab, products, customerTypes, cart, selectedCustomerType,
     paymentMethod, paymentAmount, manualDiscountType, manualDiscountValue,
     totals, inflight, orphans, posted, alertShown >>

\* The alerts of processTransaction; change is the number a success alert
\* prints.
NoAlert == [kind |-> "none", change |-> NaN]
InsufficientAlert == [kind |-> "insufficient", change |-> NaN]
SuccessAlert(change) == [kind |-> "success", change |-> change]
ErrorAlert == [kind |-> "error", change |-> NaN]

\* No request was sent.
NoPost == [sent |-> FALSE]

\* The state a freshly mounted Transaction component starts from.
TransactionInitial ==
  /\ products = <<>>
  /\ customerTypes = <<>>
  /\ cart = <<>>
  /\ selectedCustomerType = "regular"
  /\ paymentMethod = "tunai"
  /\ paymentAmount = <<>>
  /\ manualDiscountType = "none"
  /\ manualDiscountValue = <<>>

\* ------------------------------------------------------ cart helpers
\* cart.find(item => item.product_id === id) is not undefined
HasLine(c, id) == \E i \in 1..Len(c) : c[i].product_id = id

RECURSIVE filterOut(_, _)
\* c.filter(item => item.product_id !== id)
filterOut(c, id) ==
  IF c = <<>>
  THEN <<>>
  ELSE IF Head(c).product_id # id
       THEN <<Head(c)>> \o filterOut(Tail(c), id)
       ELSE filterOut(Tail(c), id)


\* Upper bound MaxQty applied to a cart: the guard that keeps the model finite.
WithinBound(c) == \A i \in 1..Len(c) : c[i].quantity <= MaxQty

\* ----------------------------------------------------- cart mutations
\* Variant of addToCartResult: a product that has a line increments every
\* line of the cart.
addToCartResult_incrementsAll(c, product) ==
  IF HasLine(c, product.id)
  THEN [i \in 1..Len(c) |-> [c[i] EXCEPT !.quantity = @ + 1]]
  ELSE Append(c, [product_id |-> product.id, product |-> product,
                  quantity |-> 1])

\* addToCart(product): the cart it hands to setCart.
addToCartResult(c, product) ==
  IF HasLine(c, product.id)
  THEN [i \in 1..Len(c) |->
          IF c[i].product_id = product.id
          THEN [c[i] EXCEPT !.quantity = @ + 1]
          ELSE c[i]]
  ELSE Append(c, [product_id |-> product.id, product |-> product,
                  quantity |-> 1])

\* Variant of updateCartItemResult: removes for quantity < 0 only, so that a
\* quantity of 0 is stored.
updateCartItemResult_keepsZero(c, productId, quantity) ==
  IF quantity < 0
  THEN filterOut(c, productId)
  ELSE [i \in 1..Len(c) |->
          IF c[i].product_id = productId
          THEN [c[i] EXCEPT !.quantity = quantity]
          ELSE c[i]]

\* Variant of updateCartItemResult: a positive quantity is added to the
\* quantity of the line.
updateCartItemResult_additive(c, productId, quantity) ==
  IF quantity <= 0
  THEN filterOut(c, productId)
  ELSE [i \in 1..Len(c) |->
          IF c[i].product_id = productId
          THEN [c[i] EXCEPT !.quantity = @ + quantity]
          ELSE c[i]]

\* Variant of updateCartItemResult: a quantity <= 0 empties the cart.
updateCartItemResult_clearsAll(c, productId, quantity) ==
  IF quantity <= 0
  THEN <<>>
  ELSE [i \in 1..Len(c) |->
          IF c[i].product_id = productId
          THEN [c[i] EXCEPT !.quantity = quantity]
          ELSE c[i]]

\* updateCartItem(productId, quantity): the cart it hands to setCart.
updateCartItemResult(c, productId, quantity) ==
  IF quantity <= 0
  THEN filterOut(c, productId)
  ELSE [i \in 1..Len(c) |->
          IF c[i].product_id = productId
          THEN [c[i] EXCEPT !.quantity = quantity]
          ELSE c[i]]

\* --------------------------------------------------- price and totals
\* Variant of getPrice: unknown identifiers get the sales price.
getPrice_defaultSales(product, customerType) ==
  CASE customerType = "regular" -> product.price_regular
    [] customerType = "bengkel" -> product.price_bengkel
    [] OTHER -> product.price_sales

\* getPrice(product, customerType): the switch on the customer type.
getPrice(product, customerType) ==
  CASE customerType = "sales" -> product.price_sales
    [] customerType = "bengkel" -> product.price_bengkel
    [] OTHER -> product.price_regular

\* Variant of discountPercentageOf: the percentage of the first customer
\* type of the table, whatever its name.
discountPercentageOf_firstEntry(types, selected) ==
  IF types # <<>> THEN types[1].discount_percentage ELSE 0

\* customerTypes.find(ct => ct.name === selectedCustomerType)
\*   ?.discount_percentage || 0
discountPercentageOf(types, selected) ==
  IF \E i \in 1..Len(types) : types[i].name = selected
  THEN LET first == CHOOSE i \in 1..Len(types) :
                      /\ types[i].name = selected
                      /\ \A j \in 1..(i - 1) : types[j].name # selected
       IN types[first].discount_percentage
  ELSE 0

RECURSIVE subtotalOf_ignoresQuantity(_, _)
\* Variant of subtotalOf: every line counts once, whatever its quantity.
subtotalOf_ignoresQuantity(c, selected) ==
  IF c = <<>>
  THEN 0
  ELSE subtotalOf_ignoresQuantity(Tail(c), selected)
       + getPrice(Head(c).product, selected)

RECURSIVE subtotalOf(_, _)
\* the forEach loop of calculateTotal
subtotalOf(c, selected) ==
  IF c = <<>>
  THEN 0
  ELSE subtotalOf(SubSeq(c, 1, Len(c) - 1), selected)
       + getPrice(c[Len(c)].product, selected) * c[Len(c)].quantity

\* calculateTotal(): reads customerTypes, selectedCustomerType and cart;
\* manualDiscountType and manualDiscountValue are in scope and not read.
calculateTotal ==
  LET discountPercentage ==
        discountPercentageOf(customerTypes, selectedCustomerType)
      subtotal == subtotalOf(cart, selectedCustomerType)
      discountAmount == (subtotal * discountPercentage) \div 100
      total == subtotal - discountAmount
  IN [subtotal |-> subtotal, discountAmount |-> discountAmount,
      total |-> total]

\* ------------------------------------------------------------ render
\* Variant of submitDisabled: the empty cart does not disable the button.
submitDisabled_ignoresEmptyCart ==
  \/ paymentAmount = <<>>
  \/ LessThan(parseFloat(paymentAmount), Num(calculateTotal.total))

\* disabled={cart.length === 0 || !paymentAmount
\*           || parseFloat(paymentAmount) < total}
submitDisabled ==
  \/ Len(cart) = 0
  \/ paymentAmount = <<>>
  \/ LessThan(parseFloat(paymentAmount), Num(calculateTotal.total))

\* {paymentAmount && parseFloat(paymentAmount) >= total && (...)}
changeVisible ==
  /\ paymentAmount # <<>>
  /\ GreaterEq(parseFloat(paymentAmount), Num(calculateTotal.total))

\* a - b on JavaScript numbers
Minus(a, b) ==
  IF a.isNaN \/ b.isNaN THEN NaN ELSE Num(a.val - b.val)

\* Variant of changeShown: the operands swapped.
changeShown_reversed ==
  Minus(Num(calculateTotal.total), parseFloat(paymentAmount))

\* Kembalian: parseFloat(paymentAmount) - total
changeShown == Minus(parseFloat(paymentAmount), Num(calculateTotal.total))

\* ------------------------------------------------------------ actions
\* const { subtotal, discountAmount, total } = calculateTotal(): the render
\* that follows every state change.
Render == totals' = calculateTotal'

Mounted == activeTab = "transaction"

\* Number of POSTs that have been sent and have not settled.
Outstanding == BagCardinality(inflight) + BagCardinality(orphans)

Init ==
  /\ activeTab = "dashboard"
  /\ TransactionInitial
  /\ totals = calculateTotal
  /\ inflight = EmptyBag
  /\ orphans = EmptyBag
  /\ posted = NoPost
  /\ alertShown = NoAlert

\* MainApp: click on a sidebar tab.  Leaving 'transaction' unmounts the
\* Transaction component: its state is dropped, its pending POSTs keep
\* running with the closure they captured.
setActiveTab(tab) ==
  /\ tab # activeTab
  /\ activeTab' = tab
  /\ IF Mounted
     THEN /\ products' = <<>>
          /\ customerTypes' = <<>>
          /\ cart' = <<>>
          /\ selectedCustomerType' = "regular"
          /\ paymentMethod' = "tunai"
          /\ paymentAmount' = <<>>
          /\ manualDiscountType' = "none"
          /\ manualDiscountValue' = <<>>
          /\ orphans' = orphans (+) inflight
          /\ inflight' = EmptyBag
     ELSE UNCHANGED << products, customerTypes, cart, selectedCustomerType,
                       paymentMethod, paymentAmount, manualDiscountType,
                       manualDiscountValue, inflight, orphans >>
  /\ alertShown' = NoAlert
  /\ posted' = NoPost
  /\ Render

\* fetchProducts(): the GET resolves and the list is stored.
fetchProducts ==
  /\ Mounted
  /\ products = <<>>
  /\ products' = Catalog
  /\ alertShown' = NoAlert
  /\ posted' = NoPost
  /\ UNCHANGED << activeTab, customerTypes, cart, selectedCustomerType,
                  paymentMethod, paymentAmount, manualDiscountType,
                  manualDiscountValue, inflight, orphans >>
  /\ Render

\* fetchCustomerTypes(): the GET resolves and the list is stored.
fetchCustomerTypes ==
  /\ Mounted
  /\ customerTypes = <<>>
  /\ customerTypes' = CustomerTypeTable
  /\ alertShown' = NoAlert
  /\ posted' = NoPost
  /\ UNCHANGED << activeTab, products, cart, selectedCustomerType,
                  paymentMethod, paymentAmount, manualDiscountType,
                  manualDiscountValue, inflight, orphans >>
  /\ Render

\* Variant of addToCart: adding a product also empties the tendered amount.
addToCart_resetsPayment(product) ==
  /\ Mounted
  /\ WithinBound(addToCartResult(cart, product))
  /\ cart' = addToCartResult(cart, product)
  /\ paymentAmount' = <<>>
  /\ alertShown' = NoAlert
  /\ posted' = NoPost
  /\ UNCHANGED << activeTab, products, customerTypes, selectedCustomerType,
                  paymentMethod, manualDiscountType, manualDiscountValue,
                  inflight, orphans >>
  /\ Render

\* Click on a product card.
addToCart(product) ==
  /\ Mounted
  /\ WithinBound(addToCartResult(cart, product))
  /\ cart' = addToCartResult(cart, product)
  /\ alertShown' = NoAlert
  /\ posted' = NoPost
  /\ UNCHANGED << activeTab, products, customerTypes, selectedCustomerType,
                  paymentMethod, paymentAmount, manualDiscountType,
                  manualDiscountValue, inflight, orphans >>
  /\ Render

\* Click on the - or + button of a cart line.
updateCartItem(productId, quantity) ==
  /\ Mounted
  /\ WithinBound(updateCartItemResult(cart, productId, quantity))
  /\ cart' = updateCartItemResult(cart, productId, quantity)
  /\ alertShown' = NoAlert
  /\ posted' = NoPost
  /\ UNCHANGED << activeTab, products, customerTypes, selectedCustomerType,
                  paymentMethod, paymentAmount, manualDiscountType,
                  manualDiscountValue, inflight, orphans >>
  /\ Render

\* onChange of the customer type <select>.
setSelectedCustomerType(name) ==
  /\ Mounted
  /\ name # selectedCustomerType
  /\ selectedCustomerType' = name
  /\ alertShown' = NoAlert
  /\ posted' = NoPost
  /\ UNCHANGED << activeTab, products, customerTypes, cart, paymentMethod,
                  paymentAmount, manualDiscountType, manualDiscountValue,
                  inflight, orphans >>
  /\ Render

\* onChange of the payment method <select>.
setPaymentMethod(method) ==
  /\ Mounted
  /\ method # paymentMethod
  /\ paymentMethod' = method
  /\ alertShown' = NoAlert
  /\ posted' = NoPost
  /\ UNCHANGED << activeTab, products, customerTypes, cart,
                  selectedCustomerType, paymentAmount, manualDiscountType,
                  manualDiscountValue, inflight, orphans >>
  /\ Render

\* onChange of the payment amount <input type="number">.
setPaymentAmount(raw) ==
  /\ Mounted
  /\ paymentAmount' = inputNumberValue(raw)
  /\ alertShown' = NoAlert
  /\ posted' = NoPost
  /\ UNCHANGED << activeTab, products, customerTypes, cart,
                  selectedCustomerType, paymentMethod, manualDiscountType,
                  manualDiscountValue, inflight, orphans >>
  /\ Render

\* Variant of itemsOf: every line is sent with quantity 1.
itemsOf_unitQuantity(c) ==
  [i \in 1..Len(c) |->
     [product_id |-> c[i].product_id, quantity |-> 1]]

\* cart.map(item => ({product_id, quantity}))
itemsOf(c) ==
  [i \in 1..Len(c) |->
     [product_id |-> c[i].product_id, quantity |-> c[i].quantity]]

\* The request body built by processTransaction.
transactionDataOf(payAmount) ==
  [sent |-> TRUE,
   customer_type |-> selectedCustomerType,
   items |-> itemsOf(cart),
   payment_method |-> paymentMethod,
   payment_amount |-> payAmount]

\* Variant of processTransaction: the form is reset when the request is
\* sent, before the POST has settled.
processTransaction_optimistic ==
  /\ Mounted
  /\ ~submitDisabled
  /\ Outstanding < MaxInFlight
  /\ posted' = transactionDataOf(parseFloat(paymentAmount))
  /\ inflight' = inflight (+) SetToBag(
                   {[items |-> itemsOf(cart),
                     payAmount |-> parseFloat(paymentAmount),
                     total |-> calculateTotal.total]})
  /\ alertShown' = NoAlert
  /\ cart' = <<>>
  /\ paymentAmount' = <<>>
  /\ UNCHANGED << activeTab, products, customerTypes, selectedCustomerType,
                  paymentMethod, manualDiscountType, manualDiscountValue,
                  orphans >>
  /\ Render

\* Click on 'Proses Transaksi': processTransaction up to its await.  The
\* pending call keeps the items of the body it sent and what it reads after
\* the await (payAmount, total).
processTransaction ==
  /\ Mounted
  /\ ~submitDisabled
  /\ Outstanding < MaxInFlight
  /\ LET total == calculateTotal.total
         payAmount == parseFloat(paymentAmount)
     IN IF LessThan(payAmount, Num(total))
        THEN /\ alertShown' = InsufficientAlert
             /\ posted' = NoPost
             /\ UNCHANGED inflight
        ELSE /\ posted' = transactionDataOf(payAmount)
             /\ inflight' = inflight (+) SetToBag(
                              {[items |-> itemsOf(cart),
                                payAmount |-> payAmount,
                                total |-> total]})
             /\ alertShown' = NoAlert
  /\ UNCHANGED << activeTab, products, customerTypes, cart,
                  selectedCustomerType, paymentMethod, paymentAmount,
                  manualDiscountType, manualDiscountValue, orphans >>
  /\ Render

\* The POST of request r resolves: processTransaction after its await.  The
\* fetchProducts() it starts serves the same catalog again.
transactionResolved(r) ==
  /\ BagIn(r, inflight)
  /\ alertShown' = SuccessAlert(Minus(r.payAmount, Num(r.total)))
  /\ posted' = NoPost
  /\ cart' = <<>>
  /\ paymentAmount' = <<>>
  /\ inflight' = inflight (-) SetToBag({r})
  /\ UNCHANGED << activeTab, products, customerTypes, selectedCustomerType,
                  paymentMethod, manualDiscountType, manualDiscountValue,
                  orphans >>
  /\ Render

\* Variant of transactionRejected: the catch block resets the form.
transactionRejected_resets(r) ==
  /\ BagIn(r, inflight)
  /\ alertShown' = ErrorAlert
  /\ posted' = NoPost
  /\ cart' = <<>>
  /\ paymentAmount' = <<>>
  /\ inflight' = inflight (-) SetToBag({r})
  /\ UNCHANGED << activeTab, products, customerTypes, selectedCustomerType,
                  paymentMethod, manualDiscountType, manualDiscountValue,
                  orphans >>
  /\ Render

\* The POST of request r is rejected: the catch block of processTransaction.
transactionRejected(r) ==
  /\ BagIn(r, inflight)
  /\ alertShown' = ErrorAlert
  /\ posted' = NoPost
  /\ inflight' = inflight (-) SetToBag({r})
  /\ UNCHANGED << activeTab, products, customerTypes, cart,
                  selectedCustomerType, paymentMethod, paymentAmount,
                  manualDiscountType, manualDiscountValue, orphans >>
  /\ Render

\* Variant of orphanSettled: the success of a request of a checkout that was
\* left clears the cart and the tendered amount of the checkout on screen.
orphanSettled_clears(r, ok) ==
  /\ BagIn(r, orphans)
  /\ orphans' = orphans (-) SetToBag({r})
  /\ alertShown' = IF ok
                   THEN SuccessAlert(Minus(r.payAmount, Num(r.total)))
                   ELSE ErrorAlert
  /\ posted' = NoPost
  /\ cart' = IF ok THEN <<>> ELSE cart
  /\ paymentAmount' = IF ok THEN <<>> ELSE paymentAmount
  /\ UNCHANGED << activeTab, products, customerTypes, selectedCustomerType,
                  paymentMethod, manualDiscountType, manualDiscountValue,
                  inflight >>
  /\ Render

\* A POST sent by a Transaction component that has been unmounted settles:
\* its alert is raised, its state setters act on no mounted component.
orphanSettled(r, ok) ==
  /\ BagIn(r, orphans)
  /\ orphans' = orphans (-) SetToBag({r})
  /\ alertShown' = IF ok
                   THEN SuccessAlert(Minus(r.payAmount, Num(r.total)))
                   ELSE ErrorAlert
  /\ posted' = NoPost
  /\ UNCHANGED << activeTab, products, customerTypes, cart,
                  selectedCustomerType, paymentMethod, paymentAmount,
                  manualDiscountType, manualDiscountValue, inflight >>
  /\ Render

Next ==
  \/ \E tab \in Tabs : setActiveTab(tab)
  \/ fetchProducts
  \/ fetchCustomerTypes
  \/ \E i \in 1..Len(products) : addToCart(products[i])
  \/ \E i \in 1..Len(cart) : \E d \in {-1, 1} :
       updateCartItem(cart[i].product_id, cart[i].quantity + d)
  \/ \E i \in 1..Len(customerTypes) :
       setSelectedCustomerType(customerTypes[i].name)
  \/ \E method \in PaymentMethods : setPaymentMethod(method)
  \/ \E raw \in PaymentTexts : setPaymentAmount(raw)
  \/ processTransaction
  \/ \E r \in BagToSet(inflight) : transactionResolved(r)
  \/ \E r \in BagToSet(inflight) : transactionRejected(r)
  \/ \E r \in BagToSet(orphans) : \E ok \in BOOLEAN : orphanSettled(r, ok)

Spec == Init /\ [][Next]_vars

\* ------------------------------------- the calculator on its own inputs
\* Customer-type identifiers handed to getPrice and calculateTotal: the
\* three tiers, and identifiers no tier price is attached to.
TierIds == {"regular", "sales", "bengkel", "grosir", ""}

\* Values of the manual discount state (mode, text of the value).
ManualDiscountInputs ==
  { [type |-> "none", value |-> <<>>],
    [type |-> "percentage", value |-> <<"1", "0">>],
    [type |-> "amount", value |-> <<"5", "0", "0", "0">>],
    [type |-> "amount", value |-> <<"5", "0", "0", "0", "0">>] }

\* calculateTotal and getPrice are functions of the component state.  This
\* specification draws that state from its whole domain (any customer-type
\* identifier, the customer types fetched or not, any manual discount) and
\* lets the cart and the selection change under it.
InitCalc ==
  /\ activeTab = "transaction"
  /\ products = Catalog
  /\ customerTypes \in {<<>>, CustomerTypeTable}
  /\ cart = <<>>
  /\ selectedCustomerType \in TierIds
  /\ paymentMethod = "tunai"
  /\ paymentAmount = <<>>
  /\ \E m \in ManualDiscountInputs :
       /\ manualDiscountType = m.type
       /\ manualDiscountValue = m.value
  /\ totals = calculateTotal
  /\ inflight = EmptyBag
  /\ orphans = EmptyBag
  /\ posted = NoPost
  /\ alertShown = NoAlert

NextCalc ==
  \/ fetchCustomerTypes
  \/ \E i \in 1..Len(products) : addToCart(products[i])
  \/ \E i \in 1..Len(cart) : \E d \in {-1, 1} :
       updateCartItem(cart[i].product_id, cart[i].quantity + d)
  \/ \E i \in 1..Len(customerTypes) :
       setSelectedCustomerType(customerTypes[i].name)

SpecCalc == InitCalc /\ [][NextCalc]_vars

\* ------------------------------------------------------------- claims
Max(a, b) == IF a >= b THEN a ELSE b
Min(a, b) == IF a <= b THEN a ELSE b

\* At most one line per product id, every quantity at least 1.
CartWellFormed(c) ==
  /\ \A i, j \in 1..Len(c) : c[i].product_id = c[j].product_id => i = j
  /\ \A i \in 1..Len(c) : c[i].quantity >= 1

ProductIds == {Catalog[i].id : i \in 1..Len(Catalog)}

\* Quantities handed to updateCartItem: negative, zero and positive ones.
QuantityInputs == (0 - 5)..(MaxQty + 1)

\* A step that sends a POST, one in which a POST of the mounted component
\* resolves, one in which it is rejected.
SendStep == BagCardinality(inflight') = BagCardinality(inflight) + 1
AckStep ==
  /\ alertShown'.kind = "success"
  /\ BagCardinality(inflight') = BagCardinality(inflight) - 1
RejectStep ==
  /\ alertShown'.kind = "error"
  /\ BagCardinality(inflight') = BagCardinality(inflight) - 1

\* The tendered amount is the text of a number that is not negative.
ValidNonNegative(text) ==
  /\ text # <<>>
  /\ inputNumberValue(text) = text
  /\ ~parseFloat(text).isNaN
  /\ parseFloat(text).val >= 0

\* allowed = cart non-empty AND amount valid and non-negative AND
\* amount >= total
checkoutAllowed ==
  /\ cart # <<>>
  /\ ValidNonNegative(paymentAmount)
  /\ parseFloat(paymentAmount).val >= calculateTotal.total

\* C1: in every reachable state the cart holds at most one line per product
\* id and every stored line has quantity >= 1; and so does the cart that
\* addToCart of any product, or updateCartItem of any product id with any
\* quantity (negative, zero, positive), makes of it.
C1_CartInvariant ==
  /\ CartWellFormed(cart)
  /\ \A i \in 1..Len(Catalog) :
       CartWellFormed(addToCartResult(cart, Catalog[i]))
  /\ \A p \in ProductIds : \A q \in QuantityInputs :
       CartWellFormed(updateCartItemResult(cart, p, q))

\* A cart of two lines, one of them with a quantity above 1.
C1_Witness ==
  /\ Len(cart) = 2
  /\ \E i \in 1..Len(cart) : cart[i].quantity >= 2

\* C2: at no reachable state are two submissions of the same cart in flight
\* at once (no two outstanding POSTs of the mounted checkout carry the same
\* items, tendered amount and total).
C2_AtMostOneInFlight ==
  \A r \in BagToSet(inflight) : CopiesIn(r, inflight) <= 1

\* C3: in a step in which the persistence service rejects a submission, the
\* cart, the selected customer type, the payment method and the tendered
\* amount are what they were before the response arrived.
C3_RejectionKeepsState ==
  [][RejectStep =>
       /\ cart' = cart
       /\ selectedCustomerType' = selectedCustomerType
       /\ paymentMethod' = paymentMethod
       /\ paymentAmount' = paymentAmount]_vars

\* A rejection has just been reported while the cart and the tendered amount
\* are still filled in and the submission can be repeated.
C3_Witness ==
  /\ alertShown.kind = "error"
  /\ Mounted
  /\ orphans = EmptyBag
  /\ cart # <<>>
  /\ ~submitDisabled

\* C4: a step in which a submission is acknowledged empties the cart and
\* resets the tendered amount to the empty text; a step that sends a
\* submission leaves the cart (and the tendered amount) as it was.
C4_ClearedOnAckOnly ==
  [][/\ AckStep => (cart' = <<>> /\ paymentAmount' = <<>>)
     /\ SendStep => (cart' = cart /\ paymentAmount' = paymentAmount)]_vars

\* An acknowledgment has just emptied the cart and the tendered amount while
\* a later submission of the same checkout is still outstanding.
C4_Witness ==
  /\ alertShown.kind = "success"
  /\ Mounted
  /\ cart = <<>>
  /\ paymentAmount = <<>>
  /\ inflight # EmptyBag
  /\ orphans = EmptyBag

\* C5: a request has just been sent only in a state where the cart is
\* non-empty, the tendered amount is a valid non-negative number and it is
\* >= the total computed from the current cart and customer type.
C5_SentOnlyWhenAllowed ==
  posted.sent =>
    /\ checkoutAllowed
    /\ posted.payment_amount = parseFloat(paymentAmount)

\* A request was sent with the tendered amount exactly equal to the total.
C5_Witness ==
  /\ posted.sent
  /\ calculateTotal.total > 0
  /\ parseFloat(paymentAmount).val = calculateTotal.total

\* The reason the checkout reports to the user: the only report in the code
\* is the alert of processTransaction for a tendered amount below the total.
reportedReason ==
  IF alertShown.kind = "insufficient" THEN "insufficient-payment" ELSE "none"

\* C6: when checkout is not allowed exactly one of the reasons empty-cart,
\* invalid-amount, insufficient-payment is reported, and for an empty cart
\* the reason is empty-cart whatever the tendered amount.
C6_ReasonReported ==
  (Mounted /\ ~checkoutAllowed) =>
    /\ reportedReason \in {"empty-cart", "invalid-amount",
                           "insufficient-payment"}
    /\ cart = <<>> => reportedReason = "empty-cart"

\* C7: whenever checkout is allowed the change shown is tendered amount
\* minus total and is not negative; every outstanding submission holds the
\* tendered amount and the total of the state it was sent from, so the change
\* its success alert reports is tendered minus total and not negative; total
\* 20700 with 25000 tendered gives 4300.
C7_ChangeIsTenderedMinusTotal ==
  /\ checkoutAllowed =>
       /\ changeVisible
       /\ ~changeShown.isNaN
       /\ changeShown.val >= 0
       /\ changeShown.val + totals.total = parseFloat(paymentAmount).val
  /\ posted.sent =>
       \E r \in BagToSet(inflight) :
         /\ r.payAmount = parseFloat(paymentAmount)
         /\ r.total = totals.total
  /\ \A r \in BagToSet(inflight) \cup BagToSet(orphans) :
       /\ ~r.payAmount.isNaN
       /\ r.payAmount.val >= r.total
  /\ alertShown.kind = "success" =>
       /\ ~alertShown.change.isNaN
       /\ alertShown.change.val >= 0
  /\ Minus(parseFloat(<<"2", "5", "0", "0", "0">>), Num(20700)) = Num(4300)

\* Checkout is allowed and a change of 500 is shown (5000 tendered for a
\* total of 4500: product B at the sales price less 10%).
C7_Witness ==
  /\ checkoutAllowed
  /\ changeVisible
  /\ changeShown = Num(500)

\* C8: for every product and every customer-type identifier getPrice is
\* price_sales for "sales", price_bengkel for "bengkel" and price_regular
\* for every other identifier, unknown ones included; so is the price of
\* every cart line under the selected customer type.
C8_PriceResolver ==
  /\ \A i \in 1..Len(Catalog) : \A ct \in TierIds :
       LET p == Catalog[i]
       IN /\ ct = "sales" => getPrice(p, ct) = p.price_sales
          /\ ct = "bengkel" => getPrice(p, ct) = p.price_bengkel
          /\ ct \notin {"sales", "bengkel"} =>
               getPrice(p, ct) = p.price_regular
          /\ getPrice(p, ct) \in
               {p.price_regular, p.price_sales, p.price_bengkel}
  /\ \A i \in 1..Len(cart) :
       getPrice(cart[i].product, selectedCustomerType) =
         IF selectedCustomerType = "sales"
         THEN cart[i].product.price_sales
         ELSE IF selectedCustomerType = "bengkel"
              THEN cart[i].product.price_bengkel
              ELSE cart[i].product.price_regular

\* A cart of two lines priced for a customer type that has no tier price.
C8_Witness ==
  /\ selectedCustomerType = "grosir"
  /\ Len(cart) = 2
  /\ totals.subtotal = 15000

\* subtotal * discountPercentage / 100 for the selected customer type.
tierDiscount ==
  (totals.subtotal
     * discountPercentageOf(customerTypes, selectedCustomerType)) \div 100

\* The manual discount: subtotal * value / 100 in percentage mode,
\* min(value, subtotal) in fixed-amount mode, nothing in mode none.
manualDiscount ==
  CASE manualDiscountType = "percentage" ->
         (totals.subtotal * parseFloat(manualDiscountValue).val) \div 100
    [] manualDiscountType = "amount" ->
         Min(parseFloat(manualDiscountValue).val, totals.subtotal)
    [] OTHER -> 0

TierPriceOf(id, ct) ==
  LET p == CHOOSE x \in {Catalog[i] : i \in 1..Len(Catalog)} : x.id = id
  IN IF ct = "sales" THEN p.price_sales
     ELSE IF ct = "bengkel" THEN p.price_bengkel
     ELSE p.price_regular

\* Quantity of the product in the cart, 0 when it has no line.
QuantityOf(c, id) ==
  IF HasLine(c, id)
  THEN c[CHOOSE i \in 1..Len(c) : c[i].product_id = id].quantity
  ELSE 0

\* C11: the subtotal rendered is the sum over the cart lines of the tier
\* price of the line's product for the selected customer type times the
\* line's quantity (here: per product, the cart holding one line of each at
\* most); it is 0 for the empty cart.
C11_SubtotalIsSumOfLines ==
  /\ totals.subtotal =
       TierPriceOf("A", selectedCustomerType) * QuantityOf(cart, "A")
       + TierPriceOf("B", selectedCustomerType) * QuantityOf(cart, "B")
  /\ cart = <<>> => totals.subtotal = 0

\* The scenario of the specification: A x2 and B x1 for a regular customer,
\* subtotal 25000.
C11_Witness ==
  /\ selectedCustomerType = "regular"
  /\ QuantityOf(cart, "A") = 2
  /\ QuantityOf(cart, "B") = 1
  /\ totals.subtotal = 25000

\* The customer types of the table named like the selected customer type.
SelectedCustomerTypeData ==
  {customerTypes[i] : i \in 1..Len(customerTypes)} \cap
    {ct \in {CustomerTypeTable[i] : i \in 1..Len(CustomerTypeTable)} :
       ct.name = selectedCustomerType}

\* C12: the discount rendered is subtotal * discountPercentage / 100 for the
\* customer type whose name is the selected one, and total is subtotal less
\* it; when no customer type of the table has that name the discount is 0 and
\* total equals subtotal.
C12_TierDiscount ==
  /\ \A ct \in SelectedCustomerTypeData :
       /\ totals.discountAmount * 100 =
            totals.subtotal * ct.discount_percentage
       /\ totals.total = totals.subtotal - totals.discountAmount
  /\ SelectedCustomerTypeData = {} =>
       /\ totals.discountAmount = 0
       /\ totals.total = totals.subtotal

\* The scenario of the specification: A x2 and B x1 for a sales customer,
\* subtotal 23000, discount 2300, total 20700.
C12_Witness ==
  /\ selectedCustomerType = "sales"
  /\ customerTypes = CustomerTypeTable
  /\ totals = [subtotal |-> 23000, discountAmount |-> 2300, total |-> 20700]

\* addLine(product, quantity) as the specification words it: the quantity is
\* added to the line of the product, or a line with it is put at the end.
AddLineExpected(c, product, quantity) ==
  IF \E i \in 1..Len(c) : c[i].product_id = product.id
  THEN [i \in 1..Len(c) |->
          IF c[i].product_id = product.id
          THEN [product_id |-> c[i].product_id, product |-> c[i].product,
                quantity |-> c[i].quantity + quantity]
          ELSE c[i]]
  ELSE c \o << [product_id |-> product.id, product |-> product,
               quantity |-> quantity] >>

\* C13: addToCart of a product that has a line increments that line by 1 and
\* leaves every other line as it is; of a product without a line it puts a
\* line of quantity 1 at the end; three addToCart of a product give the cart
\* that adding it once with quantity 3 gives.
C13_AddIncrements ==
  \A n \in 1..Len(Catalog) :
    LET product == Catalog[n]
        once == addToCartResult(cart, product)
        thrice == addToCartResult(addToCartResult(once, product), product)
    IN /\ once = AddLineExpected(cart, product, 1)
       /\ thrice = AddLineExpected(cart, product, 3)
       /\ \A i \in 1..Len(cart) :
            /\ cart[i].product_id # product.id => once[i] = cart[i]
            /\ cart[i].product_id = product.id =>
                 once[i].quantity = cart[i].quantity + 1
       /\ ~HasLine(cart, product.id) =>
            /\ Len(once) = Len(cart) + 1
            /\ once[Len(once)].product_id = product.id
            /\ once[Len(once)].quantity = 1

\* The first of two lines has been added to again: A x2 before B x1.
C13_Witness ==
  /\ Len(cart) = 2
  /\ cart[1].product_id = "A"
  /\ cart[1].quantity = 2
  /\ cart[2].quantity = 1

\* C14: updateCartItem(p, q) with q > 0 sets the quantity of the line of p
\* to exactly q, keeps every line in its position and leaves the other lines
\* as they are.
C14_SetQuantityAbsolute ==
  \A p \in ProductIds : \A q \in 1..(MaxQty + 1) :
    LET r == updateCartItemResult(cart, p, q)
    IN /\ Len(r) = Len(cart)
       /\ \A i \in 1..Len(cart) :
            /\ r[i].product_id = cart[i].product_id
            /\ r[i].product = cart[i].product
            /\ cart[i].product_id = p => r[i].quantity = q
            /\ cart[i].product_id # p => r[i] = cart[i]

\* The + button has taken the second line to quantity 2 next to a first line
\* of quantity 1.
C14_Witness ==
  /\ Len(cart) = 2
  /\ cart[1].quantity = 1
  /\ cart[2].quantity = 2

\* The cart without the line of product p, the other lines in their order.
WithoutLine(c, p) ==
  LET Keep(item) == item.product_id # p
  IN SelectSeq(c, Keep)

\* C15: updateCartItem(p, q) with any q <= 0 removes the line of p and no
\* other line; done again it changes nothing; for a product without a line
\* it leaves the cart as it is.
C15_RemoveIdempotent ==
  \A p \in ProductIds : \A q \in (0 - 5)..0 :
    LET r == updateCartItemResult(cart, p, q)
    IN /\ r = WithoutLine(cart, p)
       /\ ~HasLine(r, p)
       /\ updateCartItemResult(r, p, q) = r
       /\ ~HasLine(cart, p) => r = cart

\* A cart of two lines, from which removing one leaves the other.
C15_Witness ==
  /\ Len(cart) = 2
  /\ cart[1].product_id = "B"
  /\ cart[2].product_id = "A"

\* The request body a submit in this state would carry.
RequestNow == transactionDataOf(parseFloat(paymentAmount))

\* C16: the request built at submit is a projection of the state: its
\* customer_type is the selected customer type, its items are one
\* (product_id, quantity) pair per cart line, in cart order, with the
\* quantity of the line, its payment_method is the selected method, its
\* payment_amount is the tendered amount, and it has no field for a
\* subtotal, a discount or a total; the body that is posted is this request.
C16_RequestIsProjection ==
  /\ RequestNow.customer_type = selectedCustomerType
  /\ RequestNow.payment_method = paymentMethod
  /\ RequestNow.payment_amount = parseFloat(paymentAmount)
  /\ DOMAIN RequestNow.items = 1..Len(cart)
  /\ \A i \in 1..Len(cart) :
       /\ DOMAIN RequestNow.items[i] = {"product_id", "quantity"}
       /\ RequestNow.items[i].product_id = cart[i].product_id
       /\ RequestNow.items[i].quantity = cart[i].quantity
  /\ DOMAIN RequestNow =
       {"sent", "customer_type", "items", "payment_method", "payment_amount"}
  /\ posted.sent => posted = RequestNow

\* The request of a cart of one line has been posted for a sales customer
\* paying 5000 by transfer, while the cart on screen is that cart.
C16_Witness ==
  /\ posted.sent
  /\ posted.customer_type = "sales"
  /\ posted.payment_method = "transfer"
  /\ posted.payment_amount = Num(5000)
  /\ posted.items = << [product_id |-> "B", quantity |-> 1] >>
  /\ Len(cart) = 1

\* A step in which the POST of a checkout that was left settles.
OrphanStep == BagCardinality(orphans') = BagCardinality(orphans) - 1

\* C17: when the POST of a checkout the user has navigated away from
\* settles, by success or by failure, the cart, the tendered amount, the
\* payment method, the customer type and the outstanding requests of the
\* checkout on screen stay as they are.
C17_LateResponseDiscarded ==
  [][OrphanStep =>
       /\ cart' = cart
       /\ paymentAmount' = paymentAmount
       /\ paymentMethod' = paymentMethod
       /\ selectedCustomerType' = selectedCustomerType
       /\ inflight' = inflight]_vars

\* The success of a request of a checkout that was left has been reported
\* while a new checkout holds a cart and a tendered amount.
C17_Witness ==
  /\ alertShown.kind = "success"
  /\ Mounted
  /\ cart # <<>>
  /\ paymentAmount # <<>>
  /\ inflight = EmptyBag

\* C18: a tendered-payment input that is not a number, or is negative, is
\* rejected where it would be stored and leaves the stored amount as it was;
\* the stored amount starts empty and is emptied by a reset, so it is at
\* every moment empty or the text of a number that is not negative.
C18_RejectedInputNotStored ==
  paymentAmount = <<>> \/ ValidNonNegative(paymentAmount)

\* The (product_id, quantity) pair of cart line i is one of the pairs of
\* request r.
LineInRequest(i, r) ==
  \E k \in DOMAIN r.items :
    r.items[k] = [product_id |-> cart[i].product_id,
                  quantity |-> cart[i].quantity]

\* C19: on the success acknowledgment of a request, every cart line that
\* goes away is a (product, quantity) pair of the acknowledged request; a
\* line that the request did not carry is still in the cart afterwards.
C19_OnlySubmittedLinesCleared ==
  [][AckStep =>
       \E r \in BagToSet(inflight) :
         /\ inflight' = inflight (-) SetToBag({r})
         /\ \A i \in 1..Len(cart) :
              \/ LineInRequest(i, r)
              \/ \E j \in 1..Len(cart') : cart'[j] = cart[i]]_vars

\* A step of the checkout on screen that is neither the success of a POST
\* nor a change of tab.
FormStep == activeTab' = activeTab /\ ~AckStep

\* C20: addToCart and updateCartItem, the steps of the form that change the
\* cart, leave the customer type, the payment method and the tendered amount
\* as they are; the steps of the form that change the customer type, the
\* payment method or the tendered amount leave the cart as it is.
C20_CartAndPaymentFrames ==
  [][FormStep =>
       /\ cart' # cart =>
            /\ selectedCustomerType' = selectedCustomerType
            /\ paymentMethod' = paymentMethod
            /\ paymentAmount' = paymentAmount
       /\ ( \/ selectedCustomerType' # selectedCustomerType
            \/ paymentMethod' # paymentMethod
            \/ paymentAmount' # paymentAmount ) => cart' = cart]_vars

\* A cart of two lines next to a customer type, a payment method and a
\* tendered amount that have all been changed from their initial values.
C20_Witness ==
  /\ Len(cart) = 2
  /\ cart[2].quantity = 2
  /\ selectedCustomerType = "bengkel"
  /\ paymentMethod = "transfer"
  /\ paymentAmount = <<"5", "0", "0", "0">>

====
